---- MODULE Spec2Model ----
(***************************************************************************)
(* Model of app/main.py: a Flask facade over EC2 instance lookup and ELBv2 *)
(* target registration.  The service itself keeps no state; the state of   *)
(* the model is the provider (load balancer "default-alb", its target      *)
(* group, the EC2 instances, the registered targets) together with a       *)
(* record of the last request and its response.                            *)
(*                                                                         *)
(* Every provider call is answered in one of three ways:                   *)
(*   "ok"        the provider answers from its state;                      *)
(*   "client"    the SDK raises botocore.exceptions.ClientError;           *)
(*   "transport" the SDK raises an exception that is not a ClientError     *)
(*               (EndpointConnectionError, ReadTimeoutError, ...).         *)
(***************************************************************************)
EXTENDS Integers, Sequences, FiniteSets, TLC

VARIABLES lbExists, tgExists, instances, targets, resp, prev

vars == <<lbExists, tgExists, instances, targets, resp, prev>>

\* Number of distinct instance ids the requests and the provider draw from.
MaxIds == 2

Ids == 1..MaxIds

\* 'Port': 80 in register_targets / deregister_targets.
Port == 80

ELB_NAME == "default-alb"

Answers == {"ok", "client", "transport"}

None == <<>>

Some(x) == <<x>>

---------------------------------------------------------------------------
(* The provider, as the SDK clients ec2 and elb_client present it.         *)

Returned(v) == [raise |-> "none", code |-> "", val |-> v]

ClientError(c) == [raise |-> "ClientError", code |-> c, val |-> <<>>]

TransportError == [raise |-> "EndpointConnectionError", code |-> "", val |-> <<>>]

InstanceType(i) == IF i % 2 = 1 THEN "t2.micro" ELSE "t3.small"

LaunchTime(i) == [epoch |-> 1000 + i]

\* datetime.isoformat(): a string rendering of the launch time.
isoformat(t) == <<"ISO-8601", t.epoch>>

\* ec2.describe_instances(InstanceIds=[instance_id])
describe_instances(instance_id, ans) ==
    IF ans = "transport" THEN TransportError
    ELSE IF ans = "client"
      THEN ClientError(IF instance_id \in instances
                         THEN "RequestLimitExceeded"
                         ELSE "InvalidInstanceID.NotFound")
    ELSE IF instance_id \in instances
      THEN Returned(<<[Instances |->
                         <<[InstanceId   |-> instance_id,
                            InstanceType |-> InstanceType(instance_id),
                            LaunchTime   |-> LaunchTime(instance_id)]>>]>>)
    ELSE Returned(<<>>)

\* elb_client.describe_load_balancers(Names=[elb_name])
describe_load_balancers(elb_name, ans) ==
    IF ans = "transport" THEN TransportError
    ELSE IF ans = "client"
      THEN ClientError(IF lbExists /\ elb_name = ELB_NAME
                         THEN "Throttling" ELSE "LoadBalancerNotFound")
    ELSE IF lbExists /\ elb_name = ELB_NAME
      THEN Returned(<<[LoadBalancerArn |-> "arn:alb"]>>)
    ELSE Returned(<<>>)

\* elb_client.describe_target_groups(LoadBalancerArns=[arn])
describe_target_groups(arn, ans) ==
    IF ans = "transport" THEN TransportError
    ELSE IF ans = "client" THEN ClientError("Throttling")
    ELSE IF lbExists /\ tgExists /\ arn = "arn:alb"
      THEN Returned(<<[TargetGroupArn |-> "arn:tg"]>>)
    ELSE Returned(<<>>)

\* elb_client.describe_target_health(TargetGroupArn=arn)
describe_target_health(arn, ans) ==
    IF ans = "transport" THEN TransportError
    ELSE IF ans = "client" THEN ClientError("Throttling")
    ELSE Returned([k \in 1..Len(targets) |-> [Target |-> targets[k]]])

IsTarget(tgts, id) == \E k \in 1..Len(tgts) : tgts[k].Id = id

Count(tgts, id) == Cardinality({k \in 1..Len(tgts) : tgts[k].Id = id})

Remove(tgts, id) == SelectSeq(tgts, LAMBDA t : t.Id # id)

\* A registration that never reports a duplicate and registers again.
register_targets_twice(arn, target, ans) ==
    IF ans = "transport" THEN TransportError
    ELSE IF ans = "client" THEN ClientError("Throttling")
    ELSE IF Count(targets, target.Id) >= 2 THEN Returned(targets)
    ELSE Returned(Append(targets, target))

\* A registration that reports success and registers nothing.
register_targets_lost(arn, target, ans) ==
    IF ans = "transport" THEN TransportError
    ELSE IF ans = "client" THEN ClientError("Throttling")
    ELSE IF IsTarget(targets, target.Id) THEN ClientError("DuplicateTargetFound")
    ELSE Returned(targets)

\* elb_client.register_targets(TargetGroupArn=arn, Targets=[target]); val is
\* the membership afterwards.  A target that is already registered is
\* reported with the error code the handler maps to 409.
register_targets(arn, target, ans) ==
    IF ans = "transport" THEN TransportError
    ELSE IF ans = "client" THEN ClientError("Throttling")
    ELSE IF IsTarget(targets, target.Id) THEN ClientError("DuplicateTargetFound")
    ELSE Returned(Append(targets, target))

\* A deregistration that succeeds silently for a target that is not registered.
deregister_targets_silent(arn, target, ans) ==
    IF ans = "transport" THEN TransportError
    ELSE IF ans = "client" THEN ClientError("Throttling")
    ELSE Returned(Remove(targets, target.Id))

\* elb_client.deregister_targets(TargetGroupArn=arn, Targets=[target])
deregister_targets(arn, target, ans) ==
    IF ans = "transport" THEN TransportError
    ELSE IF ans = "client" THEN ClientError("Throttling")
    ELSE IF ~IsTarget(targets, target.Id) THEN ClientError("TargetNotFound")
    ELSE Returned(Remove(targets, target.Id))

---------------------------------------------------------------------------
(* The service.  A function's result carries exc, the exception that left  *)
(* it ("none" when it returned), and the provider calls it made.           *)

Call(name, id, ans) == [call |-> name, id |-> id, ans |-> ans]

\* get_instance_info with no except clause: a ClientError leaves it.
get_instance_info_uncaught(instance_id, ans) ==
    LET response == describe_instances(instance_id, ans)
        calls == <<Call("describe_instances", instance_id, ans)>>
    IN  IF response.raise # "none"
          THEN [exc |-> response.raise, val |-> None, calls |-> calls]
        ELSE IF response.val # <<>>
          THEN LET instance == response.val[1].Instances[1]
               IN  [exc |-> "none",
                    val |-> Some([instanceId   |-> instance.InstanceId,
                                  instanceType |-> instance.InstanceType,
                                  launchDate   |-> isoformat(instance.LaunchTime)]),
                    calls |-> calls]
        ELSE [exc |-> "none", val |-> None, calls |-> calls]

get_instance_info(instance_id, ans) ==
    LET response == describe_instances(instance_id, ans)
        calls == <<Call("describe_instances", instance_id, ans)>>
    IN  IF response.raise = "ClientError"
          THEN [exc |-> "none", val |-> None, calls |-> calls]
        ELSE IF response.raise # "none"
          THEN [exc |-> response.raise, val |-> None, calls |-> calls]
        ELSE IF response.val # <<>>
          THEN LET instance == response.val[1].Instances[1]
               IN  [exc |-> "none",
                    val |-> Some([instanceId   |-> instance.InstanceId,
                                  instanceType |-> instance.InstanceType,
                                  launchDate   |-> isoformat(instance.LaunchTime)]),
                    calls |-> calls]
        ELSE [exc |-> "none", val |-> None, calls |-> calls]

\* get_target_group_arn that takes any load balancer to have a target group.
get_target_group_arn_assumed(elb_name, a1, a2) ==
    LET response == describe_load_balancers(elb_name, a1)
        c1 == <<Call("describe_load_balancers", 0, a1)>>
    IN  IF response.raise = "ClientError"
          THEN [exc |-> "none", val |-> None, calls |-> c1]
        ELSE IF response.raise # "none"
          THEN [exc |-> response.raise, val |-> None, calls |-> c1]
        ELSE [exc |-> "none", val |-> Some("arn:tg"), calls |-> c1]

get_target_group_arn(elb_name, a1, a2) ==
    LET response == describe_load_balancers(elb_name, a1)
        c1 == <<Call("describe_load_balancers", 0, a1)>>
    IN  IF response.raise = "ClientError"
          THEN [exc |-> "none", val |-> None, calls |-> c1]
        ELSE IF response.raise # "none"
          THEN [exc |-> response.raise, val |-> None, calls |-> c1]
        ELSE IF response.val # <<>>
          THEN LET load_balancer == response.val[1]
                   target_group_response ==
                       describe_target_groups(load_balancer.LoadBalancerArn, a2)
                   c2 == Append(c1, Call("describe_target_groups", 0, a2))
               IN  IF target_group_response.raise = "ClientError"
                     THEN [exc |-> "none", val |-> None, calls |-> c2]
                   ELSE IF target_group_response.raise # "none"
                     THEN [exc |-> target_group_response.raise, val |-> None,
                           calls |-> c2]
                   ELSE IF target_group_response.val # <<>>
                     THEN [exc |-> "none",
                           val |-> Some(target_group_response.val[1].TargetGroupArn),
                           calls |-> c2]
                   ELSE [exc |-> "none", val |-> None, calls |-> c2]
        ELSE [exc |-> "none", val |-> None, calls |-> c1]

---------------------------------------------------------------------------
(* Request bodies and request.get_json().                                  *)

BodyKinds == {"malformed", "null", "empty", "nofield", "id"}

Bodies == {[kind |-> k, id |-> 0] : k \in BodyKinds \ {"id"}}
            \cup {[kind |-> "id", id |-> i] : i \in Ids}

NoBody == [kind |-> "none", id |-> 0]

\* request.get_json(): a body that is not JSON makes it raise BadRequest,
\* which Flask answers with 400; otherwise the parsed value: None for null,
\* else the object with its set of keys.
get_json(body) ==
    IF body.kind = "malformed" THEN [exc |-> "BadRequest", val |-> None]
    ELSE IF body.kind = "null" THEN [exc |-> "none", val |-> None]
    ELSE IF body.kind = "empty"
      THEN [exc |-> "none", val |-> Some([keys |-> {}, instanceId |-> 0])]
    ELSE IF body.kind = "nofield"
      THEN [exc |-> "none", val |-> Some([keys |-> {"name"}, instanceId |-> 0])]
    ELSE [exc |-> "none",
          val |-> Some([keys |-> {"instanceId"}, instanceId |-> body.id])]

\* Python's "not data": None and the empty dict are falsy.
Falsy(data) == data = None \/ data[1].keys = {}

---------------------------------------------------------------------------
(* Responses: jsonify(...), status.                                        *)

Json(tag, items) == [tag |-> tag, items |-> items]

Response(status, out, calls, lookups, tgts) ==
    [status |-> status, out |-> out, calls |-> calls, lookups |-> lookups,
     unhandled |-> FALSE, targets |-> tgts]

\* An exception that leaves the view function: Flask answers 500.
Unhandled(calls, lookups, tgts) ==
    [status |-> 500, out |-> Json("Internal Server Error", <<>>), calls |-> calls,
     lookups |-> lookups, unhandled |-> TRUE, targets |-> tgts]

\* BadRequest raised by get_json is an HTTPException: Flask answers 400.
Aborted(calls, tgts) ==
    [status |-> 400, out |-> Json("Bad Request", <<>>), calls |-> calls,
     lookups |-> <<>>, unhandled |-> FALSE, targets |-> tgts]

NoLoadBalancer == Json("error: default-alb does not exist or has no target group", <<>>)

Lookup(id, ans, r) == [id |-> id, ans |-> ans, exc |-> r.exc, val |-> r.val]

\* A health check that probes the provider first.
healthcheck_probing ==
    IF lbExists
      THEN Response(200, Json("status: up", <<>>),
                    <<Call("describe_load_balancers", 0, "ok")>>, <<>>, targets)
      ELSE Response(503, Json("status: down", <<>>),
                    <<Call("describe_load_balancers", 0, "ok")>>, <<>>, targets)

\* healthcheck()
healthcheck == Response(200, Json("status: up", <<>>), <<>>, <<>>, targets)

\* The for loop of list_machines_elb over target_health_descriptions[k..];
\* acc holds instances, the calls and the lookups so far.  An exception that
\* leaves get_instance_info ends the loop.
RECURSIVE ForEachTarget(_, _, _, _)
ForEachTarget(ths, k, fa, acc) ==
    IF k > Len(ths) THEN acc
    ELSE LET instance_id == ths[k].Target.Id
             r == get_instance_info(instance_id, fa[instance_id])
             calls == acc.calls \o r.calls
             lookups == Append(acc.lookups, Lookup(instance_id, fa[instance_id], r))
         IN  IF r.exc # "none"
               THEN [exc |-> r.exc, instances |-> acc.instances,
                     calls |-> calls, lookups |-> lookups]
             ELSE ForEachTarget(ths, k + 1, fa,
                    [exc |-> "none",
                     instances |-> IF r.val # None
                                     THEN Append(acc.instances, r.val[1])
                                     ELSE acc.instances,
                     calls |-> calls, lookups |-> lookups])

\* list_machines_elb(): a1, a2, a3 answer describe_load_balancers,
\* describe_target_groups and describe_target_health, fa[i] answers
\* describe_instances for instance i.
list_machines_elb(a1, a2, a3, fa) ==
    LET tg == get_target_group_arn(ELB_NAME, a1, a2)
    IN  IF tg.exc # "none" THEN Unhandled(tg.calls, <<>>, targets)
        ELSE IF tg.val = None
          THEN Response(404, NoLoadBalancer, tg.calls, <<>>, targets)
        ELSE
          LET response == describe_target_health(tg.val[1], a3)
              c3 == Append(tg.calls, Call("describe_target_health", 0, a3))
          IN  IF response.raise = "ClientError"
                THEN Response(500, Json("error: " \o response.code, <<>>), c3, <<>>,
                              targets)
              ELSE IF response.raise # "none" THEN Unhandled(c3, <<>>, targets)
              ELSE
                LET loop == ForEachTarget(response.val, 1, fa,
                              [exc |-> "none", instances |-> <<>>, calls |-> c3,
                               lookups |-> <<>>])
                IN  IF loop.exc # "none"
                      THEN Unhandled(loop.calls, loop.lookups, targets)
                      ELSE Response(200, Json("list", loop.instances), loop.calls,
                                    loop.lookups, targets)

\* attach_instance(): a3 answers describe_instances, a4 register_targets.
attach_instance(body, a1, a2, a3, a4) ==
    LET tg == get_target_group_arn(ELB_NAME, a1, a2)
    IN  IF tg.exc # "none" THEN Unhandled(tg.calls, <<>>, targets)
        ELSE IF tg.val = None
          THEN Response(404, NoLoadBalancer, tg.calls, <<>>, targets)
        ELSE
          LET data == get_json(body)
          IN  IF data.exc # "none" THEN Aborted(tg.calls, targets)
              ELSE IF Falsy(data.val) \/ "instanceId" \notin data.val[1].keys
                THEN Response(400, Json("error: Invalid request format", <<>>),
                              tg.calls, <<>>, targets)
              ELSE
                LET instance_id == data.val[1].instanceId
                    instance_info == get_instance_info(instance_id, a3)
                    c3 == tg.calls \o instance_info.calls
                    l3 == <<Lookup(instance_id, a3, instance_info)>>
                IN  IF instance_info.exc # "none" THEN Unhandled(c3, l3, targets)
                    ELSE IF instance_info.val = None
                      THEN Response(400, Json("error: Instance does not exist", <<>>),
                                    c3, l3, targets)
                    ELSE
                      LET response == register_targets(tg.val[1],
                                        [Id |-> instance_id, Port |-> Port], a4)
                          c4 == Append(c3, Call("register_targets", instance_id, a4))
                      IN  IF response.raise = "none"
                            THEN Response(201, Json("info", instance_info.val), c4,
                                          l3, response.val)
                          ELSE IF response.raise = "ClientError"
                            THEN IF response.code = "DuplicateTargetFound"
                                   THEN Response(409,
                                          Json("error: already attached", <<>>),
                                          c4, l3, targets)
                                   ELSE Response(500,
                                          Json("error: " \o response.code, <<>>),
                                          c4, l3, targets)
                          ELSE Unhandled(c4, l3, targets)

\* detach_instance(): a3 answers describe_instances, a4 deregister_targets.
detach_instance(body, a1, a2, a3, a4) ==
    LET tg == get_target_group_arn(ELB_NAME, a1, a2)
    IN  IF tg.exc # "none" THEN Unhandled(tg.calls, <<>>, targets)
        ELSE IF tg.val = None
          THEN Response(404, NoLoadBalancer, tg.calls, <<>>, targets)
        ELSE
          LET data == get_json(body)
          IN  IF data.exc # "none" THEN Aborted(tg.calls, targets)
              ELSE IF Falsy(data.val) \/ "instanceId" \notin data.val[1].keys
                THEN Response(400, Json("error: Invalid request format", <<>>),
                              tg.calls, <<>>, targets)
              ELSE
                LET instance_id == data.val[1].instanceId
                    instance_info == get_instance_info(instance_id, a3)
                    c3 == tg.calls \o instance_info.calls
                    l3 == <<Lookup(instance_id, a3, instance_info)>>
                IN  IF instance_info.exc # "none" THEN Unhandled(c3, l3, targets)
                    ELSE IF instance_info.val = None
                      THEN Response(400, Json("error: Instance does not exist", <<>>),
                                    c3, l3, targets)
                    ELSE
                      LET response == deregister_targets(tg.val[1],
                                        [Id |-> instance_id, Port |-> Port], a4)
                          c4 == Append(c3, Call("deregister_targets", instance_id, a4))
                      IN  IF response.raise = "none"
                            THEN Response(201, Json("info", instance_info.val), c4,
                                          l3, response.val)
                          ELSE IF response.raise = "ClientError"
                            THEN IF response.code = "TargetNotFound"
                                   THEN Response(409,
                                          Json("error: not attached", <<>>),
                                          c4, l3, targets)
                                   ELSE Response(500,
                                          Json("error: " \o response.code, <<>>),
                                          c4, l3, targets)
                          ELSE Unhandled(c4, l3, targets)

---------------------------------------------------------------------------
(* The state machine: one action per route, and the changes of the         *)
(* provider that happen outside the service.                               *)

NoResp == [op |-> "none", body |-> NoBody, pre |-> <<>>, status |-> 0,
           out |-> Json("", <<>>), calls |-> <<>>, lookups |-> <<>>,
           unhandled |-> FALSE]

Exchange(op, body, r) ==
    [op |-> op, body |-> body, pre |-> targets, status |-> r.status,
     out |-> r.out, calls |-> r.calls, lookups |-> r.lookups,
     unhandled |-> r.unhandled]

\* What the request before this one did, when it attached or detached.
Before == IF resp.op \in {"POST", "DELETE"} /\ resp.status = 201
            THEN <<resp.op, resp.body.id>> ELSE <<>>

\* The answers a call can get: those of Answers when the call is made, "ok"
\* (no answer needed) when the handler does not get that far.
AnswersIf(made) == IF made THEN Answers ELSE {"ok"}

AllOk == [i \in Ids |-> "ok"]

\* One answer per describe_instances call of the loop over the targets.
LookupAnswers(made) ==
    IF made
      THEN {fa \in [Ids -> Answers] :
              \A i \in Ids : ~IsTarget(targets, i) => fa[i] = "ok"}
      ELSE {AllOk}

Init ==
    /\ lbExists = FALSE
    /\ tgExists = FALSE
    /\ instances = {}
    /\ targets = <<>>
    /\ resp = NoResp
    /\ prev = <<>>

\* GET /healthcheck!
Healthcheck ==
    /\ resp' = Exchange("HEALTH", NoBody, healthcheck)
    /\ targets' = healthcheck.targets
    /\ prev' = Before
    /\ UNCHANGED <<lbExists, tgExists, instances>>

\* GET /elb/alb-ls
ListMachines ==
    \E a1 \in Answers :
    \E a2 \in AnswersIf(a1 = "ok" /\ lbExists) :
    \E a3 \in AnswersIf(a1 = "ok" /\ a2 = "ok" /\ lbExists /\ tgExists) :
    \E fa \in LookupAnswers(a1 = "ok" /\ a2 = "ok" /\ a3 = "ok"
                              /\ lbExists /\ tgExists) :
      LET r == list_machines_elb(a1, a2, a3, fa)
      IN  /\ resp' = Exchange("GET", NoBody, r)
          /\ targets' = r.targets
          /\ prev' = Before
          /\ UNCHANGED <<lbExists, tgExists, instances>>

\* POST /elb/alb-ls
AttachInstance ==
    \E body \in Bodies :
    \E a1 \in Answers :
    \E a2 \in AnswersIf(a1 = "ok" /\ lbExists) :
    \E a3 \in AnswersIf(a1 = "ok" /\ a2 = "ok" /\ lbExists /\ tgExists
                          /\ body.kind = "id") :
    \E a4 \in AnswersIf(a1 = "ok" /\ a2 = "ok" /\ a3 = "ok" /\ lbExists
                          /\ tgExists /\ body.kind = "id"
                          /\ body.id \in instances) :
      LET r == attach_instance(body, a1, a2, a3, a4)
      IN  /\ resp' = Exchange("POST", body, r)
          /\ targets' = r.targets
          /\ prev' = Before
          /\ UNCHANGED <<lbExists, tgExists, instances>>

\* DELETE /elb/alb-ls
DetachInstance ==
    \E body \in Bodies :
    \E a1 \in Answers :
    \E a2 \in AnswersIf(a1 = "ok" /\ lbExists) :
    \E a3 \in AnswersIf(a1 = "ok" /\ a2 = "ok" /\ lbExists /\ tgExists
                          /\ body.kind = "id") :
    \E a4 \in AnswersIf(a1 = "ok" /\ a2 = "ok" /\ a3 = "ok" /\ lbExists
                          /\ tgExists /\ body.kind = "id"
                          /\ body.id \in instances) :
      LET r == detach_instance(body, a1, a2, a3, a4)
      IN  /\ resp' = Exchange("DELETE", body, r)
          /\ targets' = r.targets
          /\ prev' = Before
          /\ UNCHANGED <<lbExists, tgExists, instances>>

\* Outside the service: the load balancer "default-alb" is created.
CreateLoadBalancer ==
    /\ ~lbExists
    /\ lbExists' = TRUE
    /\ resp' = NoResp /\ prev' = <<>>
    /\ UNCHANGED <<tgExists, instances, targets>>

\* Outside the service: the load balancer is deleted with its target group.
DeleteLoadBalancer ==
    /\ lbExists
    /\ lbExists' = FALSE /\ tgExists' = FALSE /\ targets' = <<>>
    /\ resp' = NoResp /\ prev' = <<>>
    /\ UNCHANGED instances

\* Outside the service: a target group is attached to the load balancer.
CreateTargetGroup ==
    /\ lbExists /\ ~tgExists
    /\ tgExists' = TRUE
    /\ resp' = NoResp /\ prev' = <<>>
    /\ UNCHANGED <<lbExists, instances, targets>>

\* Outside the service: the target group is deleted.
DeleteTargetGroup ==
    /\ tgExists
    /\ tgExists' = FALSE /\ targets' = <<>>
    /\ resp' = NoResp /\ prev' = <<>>
    /\ UNCHANGED <<lbExists, instances>>

\* Outside the service: an EC2 instance is launched.
RunInstance ==
    \E i \in Ids \ instances :
      /\ instances' = instances \cup {i}
      /\ resp' = NoResp /\ prev' = <<>>
      /\ UNCHANGED <<lbExists, tgExists, targets>>

\* Outside the service: an EC2 instance is terminated; a registration of it
\* stays in the target group.
TerminateInstance ==
    \E i \in instances :
      /\ instances' = instances \ {i}
      /\ resp' = NoResp /\ prev' = <<>>
      /\ UNCHANGED <<lbExists, tgExists, targets>>

Next ==
    \/ Healthcheck
    \/ ListMachines
    \/ AttachInstance
    \/ DetachInstance
    \/ CreateLoadBalancer
    \/ DeleteLoadBalancer
    \/ CreateTargetGroup
    \/ DeleteTargetGroup
    \/ RunInstance
    \/ TerminateInstance

Spec == Init /\ [][Next]_vars

TypeOK ==
    /\ lbExists \in BOOLEAN /\ tgExists \in BOOLEAN
    /\ tgExists => lbExists
    /\ instances \subseteq Ids
    /\ \A k \in 1..Len(targets) : targets[k].Id \in Ids /\ targets[k].Port = Port
    /\ resp.op \in {"none", "HEALTH", "GET", "POST", "DELETE"}

---------------------------------------------------------------------------
(* Properties.  resp is the last request with its response, resp.pre the   *)
(* target-group membership before it, targets the membership after it; the *)
(* rest of the provider state is the one the request ran against.          *)

Range(seq) == {seq[k] : k \in 1..Len(seq)}

\* Every provider call of the last request was answered from the provider's state.
AnsweredOk == \A c \in Range(resp.calls) : c.ans = "ok"

\* No provider call of the last request failed outside ClientError.
NoTransportFailure == \A c \in Range(resp.calls) : c.ans # "transport"

Called(name) == \E c \in Range(resp.calls) : c.call = name

\* The InstanceInfo of instance i: {instanceId, instanceType, launchDate}.
InfoOf(i) == [instanceId |-> i, instanceType |-> InstanceType(i),
              launchDate |-> isoformat(LaunchTime(i))]

\* C1: a POST whose JSON body has no instanceId is answered 400, makes no
\* register_targets call and leaves the membership as it was, in every
\* provider state (each provider call being answered from that state).
C1_NoInstanceIdIs400 ==
    (resp.op = "POST" /\ resp.body.kind \in {"empty", "nofield"} /\ AnsweredOk)
      => /\ resp.status = 400
         /\ ~Called("register_targets")
         /\ targets = resp.pre

\* C2: when a POST or DELETE with a missing or malformed body is rejected
\* with 400, no provider call has been made in that request before the 400.
C2_RejectedBeforeProviderCall ==
    (/\ resp.op \in {"POST", "DELETE"}
     /\ resp.body.kind \in {"malformed", "null"}
     /\ resp.status = 400)
      => resp.calls = <<>>

C6_MissingLoadBalancerIs404 ==
    (/\ resp.op = "GET"
     /\ NoTransportFailure
     /\ \/ ~lbExists
        \/ lbExists /\ ~tgExists)
      => /\ resp.status = 404
         /\ resp.out = NoLoadBalancer
         /\ ~Called("describe_target_health")

C6_Witness ==
    /\ resp.op = "GET"
    /\ lbExists /\ ~tgExists
    /\ Called("describe_target_groups")
    /\ AnsweredOk
    /\ resp.status = 404

\* C7: GET /healthcheck! is answered 200 with {status: "up"} in every
\* provider state and after any earlier requests, without a provider call.
C7_HealthcheckAlwaysUp ==
    resp.op = "HEALTH"
      => /\ resp.status = 200
         /\ resp.out = Json("status: up", <<>>)
         /\ resp.calls = <<>>
         /\ ~resp.unhandled
         /\ targets = resp.pre

C7_Witness ==
    /\ resp.op = "HEALTH"
    /\ ~lbExists
    /\ instances # {}
    /\ resp.status = 200

\* C8: in the list, attach and detach handlers every failure of a provider
\* call is caught inside the handler and the request ends with status 400,
\* 404, 409 or 500; no failure leaves the handler unhandled.
C8_FailuresCaughtInHandler ==
    (resp.op \in {"GET", "POST", "DELETE"} /\ ~AnsweredOk)
      => /\ ~resp.unhandled
         /\ resp.status \in {400, 404, 409, 500}

\* C9: get_instance_info returns None and does not raise for an instance id
\* that is not present at the provider, whether the provider answers with
\* an empty reservation list or with a client error; it returns an
\* InstanceInfo only when the provider returns the instance.
C9_LookupAbsence ==
    \A l \in Range(resp.lookups) :
      /\ (l.id \notin instances /\ l.ans \in {"ok", "client"})
           => l.val = None /\ l.exc = "none"
      /\ l.val # None
           => l.id \in instances /\ l.ans = "ok" /\ l.val = Some(InfoOf(l.id))

C9_Witness ==
    \E l \in Range(resp.lookups) :
      \E m \in Range(resp.lookups) :
        /\ l.id \notin instances /\ l.ans = "client" /\ l.val = None
        /\ m.id \in instances /\ m.val = Some(InfoOf(m.id))

\* The lookup of target id succeeded in the last request.
LookupSucceeded(id) ==
    \E l \in Range(resp.lookups) :
      l.id = id /\ l.ans = "ok" /\ id \in instances

\* The InstanceInfo records of the targets whose lookup succeeded, in the
\* order in which the provider returned the targets.
ExpectedList ==
    LET kept == SelectSeq(resp.pre, LAMBDA t : LookupSucceeded(t.Id))
    IN  [k \in 1..Len(kept) |-> InfoOf(kept[k].Id)]

\* C10: when the target group resolves and describe_target_health succeeds,
\* GET /elb/alb-ls is answered 200 with exactly the InstanceInfo records of
\* the targets whose lookup succeeds, in the provider's order; a target
\* whose lookup fails (instance absent or lookup error) is omitted and does
\* not turn the response into an error.
C10_ListDropsFailedLookups ==
    (/\ resp.op = "GET"
     /\ \E c \in Range(resp.calls) :
          c.call = "describe_target_health" /\ c.ans = "ok")
      => /\ resp.status = 200
         /\ ~resp.unhandled
         /\ resp.out = Json("list", ExpectedList)

====
